---- MODULE Spec2Model ----
(***************************************************************************)
(* Model of colav_simulator/common/config_parsing.py: the pipeline that    *)
(* reads a configuration file, validates it against a Cerberus schema,     *)
(* applies keyword overrides and converts the mapping to a dataclass.      *)
(*                                                                         *)
(* Python values are represented as follows.                               *)
(*   - A settings dict is a function from a subset of Keys to values       *)
(*     (dict equality in Python ignores insertion order).  Settings dicts  *)
(*     are mutable objects: they live in `heap` and are named by a         *)
(*     reference (an index into heap); reference 0 is None.                *)
(*   - A schema is an ordered dict: a sequence of <key, rule> items,       *)
(*     wrapped in a record whose `none` field tells None from a dict.      *)
(*   - An exception is a record [msg, fields]; NoErr means no exception.   *)
(***************************************************************************)
EXTENDS Integers, Sequences, FiniteSets, TLC

VARIABLES
    heap,       \* the mutable settings dicts, indexed by reference
    m,          \* the caller's reference to its settings mapping (0 = None)
    schema,     \* the caller's loaded schema
    op,         \* the last API function called by the caller
    kwargs,     \* the keyword arguments of the last call
    pre,        \* the heap as it was when the last call was made
    retRef,     \* the reference returned by the last override call
    retList,    \* the list returned by the last extract_valid_sections call
    err,        \* the exception raised by the last call (NoErr if none)
    rulesRun,   \* whether the last call ran the Cerberus rule set
    pc,         \* position of the running extract call
    files,      \* contents of the schema file and of the config file
    dataClass,  \* the data_class argument of extract
    converter,  \* the converter argument of extract
    exSchema,   \* extract's local variable `schema`
    exSettings, \* extract's local variable `settings` (a reference)
    trace,      \* the pipeline stages the running extract call has executed
    result      \* the value returned by extract

vars == <<heap, m, schema, op, kwargs, pre, retRef, retList, err, rulesRun,
          pc, files, dataClass, converter, exSchema, exSettings, trace, result>>

apiVars == <<m, schema, op, pre, retRef, retList, rulesRun>>
exVars == <<pc, files, dataClass, converter, exSchema, exSettings, trace, result>>

(***************************************************************************)
(* Bounds of the model.                                                    *)
(***************************************************************************)
MaxKwargs == 2

(***************************************************************************)
(* Values                                                                  *)
(***************************************************************************)
Keys == {"speed", "name", "x"}

IntVal(i) == [t |-> "integer", n |-> i, d |-> <<>>]
StrVal(i) == [t |-> "string", n |-> i, d |-> <<>>]
DictVal(f) == [t |-> "dict", n |-> 0, d |-> f]

NestedA == DictVal([k \in {"a"} |-> 1])
NestedB == DictVal([k \in {"b"} |-> 2])

\* The values keyword overrides carry.
Values == {IntVal(1), NestedB}

EmptyDict == <<>>

NoErr == [msg |-> "none", fields |-> {}]
Error(msg, fields) == [msg |-> msg, fields |-> fields]

NoneSchema == [none |-> TRUE, items |-> <<>>]
Schema(items) == [none |-> FALSE, items |-> items]
Rule(k, type, required) == [k |-> k, type |-> type, required |-> required]

NoneDict == [none |-> TRUE, d |-> EmptyDict]
SomeDict(d) == [none |-> FALSE, d |-> d]

\* The value a reference denotes.
Deref(h, ref) == IF ref = 0 THEN NoneDict ELSE SomeDict(h[ref])

(***************************************************************************)
(* cerberus.Validator(schema).validate(document), for schemas made of the  *)
(* rules `type` and `required`, with the library's defaults                *)
(* (allow_unknown = False).  The result is the set of fields that          *)
(* validator.errors reports; the document is valid iff it is empty.        *)
(***************************************************************************)
SchemaKeys(items) == {items[i].k : i \in 1..Len(items)}

UnknownFields(items, doc) == {k \in DOMAIN doc : k \notin SchemaKeys(items)}

MissingFields(items, doc) ==
    {items[i].k : i \in {j \in 1..Len(items) :
                            items[j].required /\ items[j].k \notin DOMAIN doc}}

WrongTypeFields(items, doc) ==
    {items[i].k : i \in {j \in 1..Len(items) :
                            /\ items[j].k \in DOMAIN doc
                            /\ doc[items[j].k].t # items[j].type}}

CerberusErrors(items, doc) ==
    UnknownFields(items, doc) \cup MissingFields(items, doc)
        \cup WrongTypeFields(items, doc)

\* Python truthiness of a dict-or-None value: `not settings`, `not schema`.
NotSettings(s) == s.none \/ DOMAIN s.d = {}
NotSchema(S) == S.none \/ Len(S.items) = 0

(***************************************************************************)
(* validate(settings, schema): the exception raised (NoErr if it returns)  *)
(* and whether the Validator was run.                                      *)
(***************************************************************************)
\* Variant: the schema is not checked for emptiness before the Validator runs.
validateNoSchemaCheck(settings, S) ==
    IF NotSettings(settings)
    THEN [err |-> Error("Empty settings!", {}), rules |-> FALSE]
    ELSE LET errors == CerberusErrors(S.items, settings.d)
         IN IF errors # {}
            THEN [err |-> Error("Cerberus validation Error", errors), rules |-> TRUE]
            ELSE [err |-> NoErr, rules |-> TRUE]

validate(settings, S) ==
    IF NotSettings(settings)
    THEN [err |-> Error("Empty settings!", {}), rules |-> FALSE]
    ELSE IF NotSchema(S)
    THEN [err |-> Error("Empty schema!", {}), rules |-> FALSE]
    ELSE LET errors == CerberusErrors(S.items, settings.d)
         IN IF errors # {}
            THEN [err |-> Error("Cerberus validation Error", errors), rules |-> TRUE]
            ELSE [err |-> NoErr, rules |-> TRUE]

(***************************************************************************)
(* extract_valid_sections(schema): the list returned and the exception.    *)
(***************************************************************************)
\* Variant: the sections are returned sorted (here: in reverse) instead of in key order.
extract_valid_sections_reordered(S) ==
    IF S.none
    THEN [ret |-> <<>>, err |-> Error("No configuration schema provided!", {})]
    ELSE [ret |-> [i \in 1..Len(S.items) |-> S.items[Len(S.items) + 1 - i].k],
          err |-> NoErr]

extract_valid_sections(S) ==
    IF S.none
    THEN [ret |-> <<>>, err |-> Error("No configuration schema provided!", {})]
    ELSE [ret |-> [i \in 1..Len(S.items) |-> S.items[i].k], err |-> NoErr]

(***************************************************************************)
(* override(settings, schema, **kwargs) on the heap h, settings being the  *)
(* reference ref.  Returns the heap after the call, the reference returned *)
(* (0 when it raises), the exception and whether the rule set was run.     *)
(***************************************************************************)
\* Variant: a deep merge of nested mappings instead of a plain assignment.
SetItemsDeepMerge(d, kw) ==
    [k \in DOMAIN d \cup DOMAIN kw |->
        IF k \notin DOMAIN kw THEN d[k]
        ELSE IF k \in DOMAIN d /\ d[k].t = "dict" /\ kw[k].t = "dict"
        THEN DictVal([i \in DOMAIN d[k].d \cup DOMAIN kw[k].d |->
                        IF i \in DOMAIN kw[k].d THEN kw[k].d[i] ELSE d[k].d[i]])
        ELSE kw[k]]

\* for key, value in kwargs.items(): new_settings[key] = value
SetItems(d, kw) ==
    [k \in DOMAIN d \cup DOMAIN kw |-> IF k \in DOMAIN kw THEN kw[k] ELSE d[k]]

\* Variant: the overrides are written but the mapping is not validated again.
overrideUnvalidated(h, ref, S, kw) ==
    IF DOMAIN kw = {}
    THEN [heap |-> h, ret |-> ref, err |-> NoErr, rules |-> FALSE]
    ELSE IF ref = 0
    THEN [heap |-> h, ret |-> 0, rules |-> FALSE, err |-> Error("TypeError", {})]
    ELSE [heap |-> [h EXCEPT ![ref] = SetItems(h[ref], kw)],
          ret |-> ref, err |-> NoErr, rules |-> FALSE]

\* Variant: the mapping is validated before the overrides are written.
overrideValidatesFirst(h, ref, S, kw) ==
    IF DOMAIN kw = {}
    THEN [heap |-> h, ret |-> ref, err |-> NoErr, rules |-> FALSE]
    ELSE IF ref = 0
    THEN [heap |-> h, ret |-> 0, rules |-> FALSE, err |-> Error("TypeError", {})]
    ELSE LET v == validate(Deref(h, ref), S)
         IN [heap |-> [h EXCEPT ![ref] = SetItems(h[ref], kw)],
             ret |-> IF v.err = NoErr THEN ref ELSE 0,
             err |-> v.err, rules |-> v.rules]

\* Variant: no early return, the mapping is validated also without overrides.
overrideAlwaysValidates(h, ref, S, kw) ==
    LET h2 == IF ref = 0 \/ DOMAIN kw = {} THEN h
              ELSE [h EXCEPT ![ref] = SetItems(h[ref], kw)]
        v == validate(Deref(h2, ref), S)
    IN IF ref = 0 /\ DOMAIN kw # {}
       THEN [heap |-> h, ret |-> 0, rules |-> FALSE, err |-> Error("TypeError", {})]
       ELSE [heap |-> h2, ret |-> IF v.err = NoErr THEN ref ELSE 0,
             err |-> v.err, rules |-> v.rules]

\* Variant: new_settings = dict(settings), the overrides go to a copy.
overrideCopies(h, ref, S, kw) ==
    IF DOMAIN kw = {}
    THEN [heap |-> h, ret |-> ref, err |-> NoErr, rules |-> FALSE]
    ELSE IF ref = 0
    THEN [heap |-> h, ret |-> 0, rules |-> FALSE, err |-> Error("TypeError", {})]
    ELSE LET h2 == Append(h, SetItems(h[ref], kw))
             new_settings == Len(h2)
             v == validate(Deref(h2, new_settings), S)
         IN [heap |-> h2,
             ret |-> IF v.err = NoErr THEN new_settings ELSE 0,
             err |-> v.err, rules |-> v.rules]

\* Variant: the overrides are undone when the validation fails.
overrideRollsBack(h, ref, S, kw) ==
    IF DOMAIN kw = {}
    THEN [heap |-> h, ret |-> ref, err |-> NoErr, rules |-> FALSE]
    ELSE IF ref = 0
    THEN [heap |-> h, ret |-> 0, rules |-> FALSE, err |-> Error("TypeError", {})]
    ELSE LET h2 == [h EXCEPT ![ref] = SetItems(h[ref], kw)]
             v == validate(Deref(h2, ref), S)
         IN [heap |-> IF v.err = NoErr THEN h2 ELSE h,
             ret |-> IF v.err = NoErr THEN ref ELSE 0,
             err |-> v.err, rules |-> v.rules]

override(h, ref, S, kw) ==
    IF DOMAIN kw = {}
    THEN [heap |-> h, ret |-> ref, err |-> NoErr, rules |-> FALSE]
    ELSE IF ref = 0
    THEN [heap |-> h, ret |-> 0, rules |-> FALSE,
          err |-> Error("TypeError", {})]
    ELSE LET new_settings == ref
             h2 == [h EXCEPT ![new_settings] = SetItems(h[new_settings], kw)]
             v == validate(Deref(h2, ref), S)
         IN [heap |-> h2,
             ret |-> IF v.err = NoErr THEN new_settings ELSE 0,
             err |-> v.err, rules |-> v.rules]

(***************************************************************************)
(* futils.read_yaml_into_dict(path): the file is unreadable (FileError)    *)
(* or yields its content, a dict or None.                                  *)
(***************************************************************************)
Unreadable(nothing) == [ok |-> FALSE, content |-> nothing]
Readable(content) == [ok |-> TRUE, content |-> content]

read_yaml_into_dict(file) ==
    IF file.ok THEN [value |-> file.content, err |-> NoErr]
    ELSE [value |-> file.content, err |-> Error("FileError", {})]

\* A pipeline stage and the exception it ended with.
Event(stage, e) == [stage |-> stage, err |-> e]

(***************************************************************************)
(* parse(file_name, schema): reads the file into a new dict object and     *)
(* validates it.  Returns the heap, the reference returned (0 when it      *)
(* raises or when the file holds None), the exception and the stages run.  *)
(***************************************************************************)
parse(h, file, S) ==
    LET r == read_yaml_into_dict(file)
    IN IF r.err # NoErr
       THEN [heap |-> h, ret |-> 0, err |-> r.err,
             events |-> <<Event("read_config", r.err)>>]
       ELSE LET h2 == IF r.value.none THEN h ELSE Append(h, r.value.d)
                settings == IF r.value.none THEN 0 ELSE Len(h2)
                v == validate(Deref(h2, settings), S)
            IN [heap |-> h2,
                ret |-> IF v.err = NoErr THEN settings ELSE 0,
                err |-> v.err,
                events |-> <<Event("read_config", NoErr), Event("validate", v.err)>>]

(***************************************************************************)
(* dacite.from_dict(data_class, data, Config(type_hooks)): a data class is *)
(* a sequence of fields [name, type] without defaults; the fields are      *)
(* built in order and the first field that cannot be built raises.         *)
(***************************************************************************)
NoObject == [none |-> TRUE, obj |-> EmptyDict]
Object(f) == [none |-> FALSE, obj |-> f]
Field(name, type) == [name |-> name, type |-> type]

\* The type hook `int`: int("1") = 1, int(1) = 1, int({...}) raises.
IntHook(v) == IF v.t = "dict" THEN [value |-> v, err |-> Error("TypeError", {})]
              ELSE [value |-> IntVal(v.n), err |-> NoErr]

BuildValue(field, data, type_hooks) ==
    IF field.name \notin DOMAIN data
    THEN [value |-> IntVal(0), err |-> Error("MissingValueError", {field.name})]
    ELSE LET hooked == IF field.type \in type_hooks
                       THEN IntHook(data[field.name])
                       ELSE [value |-> data[field.name], err |-> NoErr]
         IN IF hooked.err # NoErr THEN hooked
            ELSE IF hooked.value.t # field.type
            THEN [value |-> hooked.value, err |-> Error("WrongTypeError", {field.name})]
            ELSE hooked

from_dict(data_class, data, type_hooks) ==
    LET built == [i \in 1..Len(data_class) |-> BuildValue(data_class[i], data, type_hooks)]
        failed == {i \in 1..Len(data_class) : built[i].err # NoErr}
        names == {data_class[i].name : i \in 1..Len(data_class)}
    IN IF failed # {}
       THEN [ret |-> NoObject,
             err |-> built[CHOOSE i \in failed : \A j \in failed : i <= j].err]
       ELSE [ret |-> Object([f \in names |->
                       built[CHOOSE i \in 1..Len(data_class) : data_class[i].name = f].value]),
             err |-> NoErr]

(***************************************************************************)
(* convert_settings_dict_to_dataclass(data_class, config_dict, converter)  *)
(***************************************************************************)
NoConverter == [none |-> TRUE, type_hooks |-> {}]
Converter(types) == [none |-> FALSE, type_hooks |-> types]

convert_settings_dict_to_dataclass(data_class, config_dict, conv) ==
    IF ~conv.none
    THEN from_dict(data_class, config_dict, conv.type_hooks)
    ELSE from_dict(data_class, config_dict, {})

(***************************************************************************)
(* Inputs                                                                  *)
(***************************************************************************)
Schemas ==
    { NoneSchema,
      Schema(<<>>),
      Schema(<<Rule("speed", "integer", TRUE)>>),
      Schema(<<Rule("speed", "string", TRUE)>>),
      Schema(<<Rule("speed", "integer", TRUE), Rule("name", "string", FALSE)>>),
      Schema(<<Rule("name", "string", TRUE), Rule("speed", "dict", TRUE)>>),
      Schema(<<Rule("x", "dict", FALSE), Rule("speed", "integer", TRUE),
               Rule("name", "string", FALSE)>>) }

\* The settings mappings a caller or a config file starts with.
Settings ==
    { NoneDict,
      SomeDict(EmptyDict),
      SomeDict([k \in {"speed"} |-> IntVal(1)]),
      SomeDict([k \in {"speed"} |-> StrVal(1)]),
      SomeDict([k \in {"speed", "name"} |-> IF k = "speed" THEN IntVal(1) ELSE StrVal(1)]),
      SomeDict([k \in {"speed", "name"} |-> IF k = "speed" THEN NestedA ELSE StrVal(1)]) }

Kwargs ==
    UNION {[D -> Values] : D \in {K \in SUBSET Keys : Cardinality(K) <= MaxKwargs}}

DataClasses ==
    { <<Field("speed", "integer")>>,
      <<Field("speed", "integer"), Field("name", "string")>> }

Converters == {NoConverter, Converter({"integer"})}

SchemaFiles == {Unreadable(NoneSchema)} \cup {Readable(S) : S \in Schemas}
ConfigFiles == {Unreadable(NoneDict)} \cup {Readable(M) : M \in Settings}

NoFiles == [schema |-> Unreadable(NoneSchema), config |-> Unreadable(NoneDict)]

(***************************************************************************)
(* Initial states                                                          *)
(***************************************************************************)
InitExtract ==
    /\ pc = "idle"
    /\ files = NoFiles
    /\ dataClass = <<>>
    /\ converter = NoConverter
    /\ exSchema = NoneSchema
    /\ exSettings = 0
    /\ trace = <<>>
    /\ result = NoObject

InitCalls ==
    /\ op = "none"
    /\ kwargs = EmptyDict
    /\ retRef = 0
    /\ retList = <<>>
    /\ err = NoErr
    /\ rulesRun = FALSE

\* The caller holds a schema and a settings mapping and calls the API on them.
Init ==
    /\ \E M \in Settings :
         /\ heap = IF M.none THEN <<>> ELSE <<M.d>>
         /\ m = IF M.none THEN 0 ELSE 1
    /\ pre = heap
    /\ schema \in Schemas
    /\ InitCalls
    /\ InitExtract

\* The caller runs extract on files.
InitFiles ==
    /\ heap = <<>>
    /\ m = 0
    /\ pre = <<>>
    /\ schema = NoneSchema
    /\ InitCalls
    /\ InitExtract

(***************************************************************************)
(* API calls on the caller's objects                                       *)
(***************************************************************************)
CallValidate ==
    LET v == validate(Deref(heap, m), schema)
    IN /\ op' = "validate"
       /\ kwargs' = EmptyDict
       /\ pre' = heap
       /\ err' = v.err
       /\ rulesRun' = v.rules
       /\ retRef' = 0
       /\ retList' = <<>>
       /\ UNCHANGED <<heap, m, schema>>
       /\ UNCHANGED exVars

CallExtractValidSections ==
    LET r == extract_valid_sections(schema)
    IN /\ op' = "extract_valid_sections"
       /\ kwargs' = EmptyDict
       /\ pre' = heap
       /\ err' = r.err
       /\ rulesRun' = FALSE
       /\ retRef' = 0
       /\ retList' = r.ret
       /\ UNCHANGED <<heap, m, schema>>
       /\ UNCHANGED exVars

CallOverride(kw) ==
    LET r == override(heap, m, schema, kw)
    IN /\ op' = "override"
       /\ kwargs' = kw
       /\ pre' = heap
       /\ heap' = r.heap
       /\ err' = r.err
       /\ rulesRun' = r.rules
       /\ retRef' = r.ret
       /\ retList' = <<>>
       /\ UNCHANGED <<m, schema>>
       /\ UNCHANGED exVars

Next ==
    \/ CallValidate
    \/ CallExtractValidSections
    \/ \E kw \in Kwargs : CallOverride(kw)

Spec == Init /\ [][Next]_vars

(***************************************************************************)
(* extract(data_class, config_file, config_schema, converter, **kwargs),   *)
(* one action per statement.                                               *)
(***************************************************************************)
ExtractCall(sf, cf, dc, conv, kw) ==
    /\ pc' = "read_schema"
    /\ files' = [schema |-> sf, config |-> cf]
    /\ dataClass' = dc
    /\ converter' = conv
    /\ kwargs' = kw
    /\ trace' = <<>>
    /\ UNCHANGED <<heap, err, exSchema, exSettings, result>>
    /\ UNCHANGED apiVars

\* schema = futils.read_yaml_into_dict(config_schema)
ExtractReadSchema ==
    /\ pc = "read_schema"
    /\ LET r == read_yaml_into_dict(files.schema)
       IN /\ trace' = Append(trace, Event("read_schema", r.err))
          /\ err' = r.err
          /\ IF r.err = NoErr
             THEN pc' = "parse" /\ exSchema' = r.value
             ELSE pc' = "failed" /\ UNCHANGED exSchema
    /\ UNCHANGED <<heap, kwargs, files, dataClass, converter, exSettings, result>>
    /\ UNCHANGED apiVars

\* Variant: a failure of parse is swallowed and the pipeline goes on.
ExtractParseContinues ==
    /\ pc = "parse"
    /\ LET r == parse(heap, files.config, exSchema)
       IN /\ trace' = trace \o r.events
          /\ err' = r.err
          /\ heap' = IF r.err = NoErr THEN r.heap ELSE Append(heap, EmptyDict)
          /\ pc' = "override"
          /\ exSettings' = IF r.err = NoErr THEN r.ret ELSE Len(heap')
    /\ UNCHANGED <<kwargs, files, dataClass, converter, exSchema, result>>
    /\ UNCHANGED apiVars

\* settings = parse(config_file, schema)
ExtractParse ==
    /\ pc = "parse"
    /\ LET r == parse(heap, files.config, exSchema)
       IN /\ trace' = trace \o r.events
          /\ err' = r.err
          /\ heap' = r.heap
          /\ IF r.err = NoErr
             THEN pc' = "override" /\ exSettings' = r.ret
             ELSE pc' = "failed" /\ UNCHANGED exSettings
    /\ UNCHANGED <<kwargs, files, dataClass, converter, exSchema, result>>
    /\ UNCHANGED apiVars

\* settings = override(settings, schema, **kwargs)
ExtractOverride ==
    /\ pc = "override"
    /\ LET r == override(heap, exSettings, exSchema, kwargs)
       IN /\ trace' = Append(trace, Event("override", r.err))
          /\ err' = r.err
          /\ heap' = r.heap
          /\ IF r.err = NoErr
             THEN pc' = "convert" /\ exSettings' = r.ret
             ELSE pc' = "failed" /\ UNCHANGED exSettings
    /\ UNCHANGED <<kwargs, files, dataClass, converter, exSchema, result>>
    /\ UNCHANGED apiVars

\* settings = convert_settings_dict_to_dataclass(data_class, settings, converter)
ExtractConvert ==
    /\ pc = "convert"
    /\ LET r == convert_settings_dict_to_dataclass(dataClass, heap[exSettings], converter)
       IN /\ trace' = Append(trace, Event("convert", r.err))
          /\ err' = r.err
          /\ result' = r.ret
          /\ pc' = IF r.err = NoErr THEN "done" ELSE "failed"
    /\ UNCHANGED <<heap, kwargs, files, dataClass, converter, exSchema, exSettings>>
    /\ UNCHANGED apiVars

\* return settings, or the exception reaches the caller; the locals are dropped.
ExtractReturn ==
    /\ pc \in {"done", "failed"}
    /\ heap' = <<>>
    /\ kwargs' = EmptyDict
    /\ err' = NoErr
    /\ pc' = "idle"
    /\ files' = NoFiles
    /\ dataClass' = <<>>
    /\ converter' = NoConverter
    /\ exSchema' = NoneSchema
    /\ exSettings' = 0
    /\ trace' = <<>>
    /\ result' = NoObject
    /\ UNCHANGED apiVars

NextExtract ==
    \/ /\ pc = "idle"
       /\ \E sf \in SchemaFiles, cf \in ConfigFiles, dc \in DataClasses,
             conv \in Converters, kw \in Kwargs : ExtractCall(sf, cf, dc, conv, kw)
    \/ ExtractReadSchema
    \/ ExtractParse
    \/ ExtractOverride
    \/ ExtractConvert
    \/ ExtractReturn

SpecExtract == InitFiles /\ [][NextExtract]_vars

(***************************************************************************)
(* Properties                                                              *)
(***************************************************************************)
Overridden == op = "override" /\ DOMAIN kwargs # {} /\ m # 0

LastStage == IF trace = <<>> THEN "none" ELSE trace[Len(trace)].stage

\* Conversion is about to run or has run in the current extract call.
ConversionReached == pc = "convert" \/ LastStage = "convert"

StageOrder == <<"read_schema", "read_config", "validate", "override", "convert">>

\* C1: in every run of extract, conversion is reached only after the
\* validation of the mapping that is converted has succeeded (the mapping
\* after the overrides when overrides are given): the parse validation is in
\* the trace without error, so is the override stage, the mapping extract
\* holds satisfies the schema, and neither the schema nor the raw settings
\* read from the file nor the mapping converted is empty.
C1_ValidatedBeforeConversion ==
    ConversionReached =>
        /\ \E i \in 1..Len(trace) : trace[i] = Event("validate", NoErr)
        /\ \E i \in 1..Len(trace) : trace[i] = Event("override", NoErr)
        /\ ~NotSchema(exSchema)
        /\ files.config.ok /\ ~NotSettings(files.config.content)
        /\ exSettings # 0
        /\ ~NotSettings(Deref(heap, exSettings))
        /\ CerberusErrors(exSchema.items, heap[exSettings]) = {}
        /\ \A k \in DOMAIN kwargs : heap[exSettings][k] = kwargs[k]

\* Conversion is reached in a run with overrides that changed the mapping.
C1_Witness ==
    /\ pc = "convert"
    /\ DOMAIN kwargs # {}
    /\ heap[exSettings] # files.config.content.d

\* C2: validate on empty (or absent) settings fails with "Empty settings!",
\* on non-empty settings and an empty (or absent) schema with "Empty
\* schema!", whatever the other argument holds, and in both cases the
\* schema's rule set is not run.
C2_EmptyInputRejected ==
    op = "validate" =>
        /\ NotSettings(Deref(heap, m)) =>
              err = Error("Empty settings!", {}) /\ ~rulesRun
        /\ ~NotSettings(Deref(heap, m)) /\ NotSchema(schema) =>
              err = Error("Empty schema!", {}) /\ ~rulesRun

\* validate was called with an empty schema on a non-empty mapping.
C2_Witness ==
    /\ op = "validate"
    /\ schema = Schema(<<>>)
    /\ m # 0 /\ "x" \in DOMAIN heap[m]
    /\ err = Error("Empty schema!", {})

\* C3: extract_valid_sections fails whenever the schema is absent or empty
\* (the statement of the claim; the code only rejects None).
C3_EmptySchemaRaises ==
    op = "extract_valid_sections" /\ NotSchema(schema) => err # NoErr

\* C4: for a non-empty schema extract_valid_sections returns the top-level
\* keys of the schema, each once and in the schema's order, and the schema is
\* the same after the call.
C4_SectionsAreKeysInOrder ==
    [][ op' = "extract_valid_sections" /\ ~NotSchema(schema) =>
          /\ schema' = schema
          /\ err' = NoErr
          /\ Len(retList') = Len(schema.items)
          /\ \A i \in 1..Len(schema.items) : retList'[i] = schema.items[i].k
          /\ \A i, j \in 1..Len(retList') : retList'[i] = retList'[j] => i = j
      ]_vars

\* The sections of a three-section schema whose order is not alphabetical.
C4_Witness ==
    /\ op = "extract_valid_sections"
    /\ retList = <<"x", "speed", "name">>

\* C5: override without keyword overrides returns the mapping it was given
\* (the same object, None included), leaves every mapping as it was, raises
\* nothing and does not run validation, also when the mapping or the schema
\* is empty or the mapping violates the schema.
C5_NoOverridesIsIdentity ==
    op = "override" /\ DOMAIN kwargs = {} =>
        /\ err = NoErr
        /\ retRef = m
        /\ heap = pre
        /\ ~rulesRun

\* override without overrides returned a mapping that violates the schema.
C5_Witness ==
    /\ op = "override"
    /\ DOMAIN kwargs = {}
    /\ err = NoErr
    /\ ~NotSchema(schema)
    /\ m # 0 /\ CerberusErrors(schema.items, heap[m]) # {}

\* C6: override with at least one override sets every override key of the
\* mapping to the supplied value (absent keys are inserted, scalar and
\* nested values replaced as a whole) and every other top-level key keeps
\* the value it had.
C6_OverridesWrittenShallow ==
    Overridden =>
        /\ DOMAIN heap[m] = DOMAIN pre[m] \cup DOMAIN kwargs
        /\ \A k \in DOMAIN kwargs : heap[m][k] = kwargs[k]
        /\ \A k \in DOMAIN pre[m] \ DOMAIN kwargs : heap[m][k] = pre[m][k]

\* One call replaced a nested value by another nested value, inserted an
\* absent key and left a third key alone.
C6_Witness ==
    /\ Overridden
    /\ DOMAIN pre[m] = {"speed", "name"}
    /\ pre[m]["speed"] = NestedA
    /\ DOMAIN kwargs = {"speed", "x"}
    /\ kwargs["speed"] = NestedB
    /\ heap[m]["name"] = StrVal(1)

\* C7: when override with at least one override returns normally, the
\* mapping returned satisfies the schema; the exception it raises is the one
\* validate raises on the mapping after the overrides were written,
\* "Empty schema!" included.
C7_OverrideRevalidates ==
    /\ op = "override" /\ DOMAIN kwargs # {} /\ err = NoErr =>
          /\ retRef # 0
          /\ ~NotSchema(schema)
          /\ CerberusErrors(schema.items, heap[retRef]) = {}
    /\ Overridden =>
          /\ err = validate(Deref(heap, m), schema).err
          /\ NotSchema(schema) => err = Error("Empty schema!", {})

\* An override made a mapping that violated the schema satisfy it.
C7_Witness ==
    /\ Overridden
    /\ err = NoErr
    /\ ~NotSchema(schema)
    /\ CerberusErrors(schema.items, pre[m]) # {}
    /\ CerberusErrors(schema.items, heap[retRef]) = {}

\* C8: extract runs its stages in order (schema read, config read,
\* validation, override, conversion), no stage runs after a stage that
\* failed, extract fails with the error of that stage, an unreadable file
\* fails the stage that reads it, and a typed object is returned only in a
\* run in which all five stages succeeded.
C8_FirstFailureAborts ==
    /\ Len(trace) <= Len(StageOrder)
    /\ \A i \in 1..Len(trace) : trace[i].stage = StageOrder[i]
    /\ \A i \in 1..Len(trace) : i < Len(trace) => trace[i].err = NoErr
    /\ ~files.schema.ok /\ Len(trace) >= 1 => trace[1].err = Error("FileError", {})
    /\ ~files.config.ok /\ Len(trace) >= 2 => trace[2].err = Error("FileError", {})
    /\ pc = "failed" =>
          /\ trace # <<>>
          /\ err # NoErr
          /\ err = trace[Len(trace)].err
          /\ result = NoObject
    /\ pc \in {"parse", "override", "convert", "done"} =>
          trace # <<>> /\ trace[Len(trace)].err = NoErr
    /\ pc = "done" => Len(trace) = Len(StageOrder)
    /\ result # NoObject => pc = "done"

\* extract failed in the validation that follows the overrides.
C8_Witness ==
    /\ pc = "failed"
    /\ LastStage = "override"
    /\ err.msg = "Cerberus validation Error"

\* C9: a successful override with overrides returns the reference it was
\* given: no new mapping is created, and the caller's mapping, which is the
\* returned one, holds the overrides.
C9_MutatesInPlace ==
    Overridden /\ err = NoErr =>
        /\ retRef = m
        /\ Len(heap) = Len(pre)
        /\ \A k \in DOMAIN kwargs : heap[m][k] = kwargs[k] /\ heap[retRef][k] = kwargs[k]

\* A successful override changed the caller's mapping.
C9_Witness ==
    /\ Overridden
    /\ err = NoErr
    /\ retRef = m
    /\ heap[m] # pre[m]

\* C10: when override raises because the mapping with the overrides is
\* invalid, the caller's mapping still holds every override value.
C10_NoRollbackOnFailure ==
    Overridden /\ err # NoErr =>
        \A k \in DOMAIN kwargs : k \in DOMAIN heap[m] /\ heap[m][k] = kwargs[k]

\* A failed override left the caller's mapping changed.
C10_Witness ==
    /\ Overridden
    /\ err.msg = "Cerberus validation Error"
    /\ heap[m] # pre[m]
    /\ \E k \in DOMAIN kwargs : k \notin DOMAIN pre[m]

====
